---- MODULE Spec2Model ----
(***************************************************************************)
(* A model of generate_config.py: the role dependency resolution and the  *)
(* configuration assembly of ConfigGenerator, with HostsParser.get_hosts. *)
(*                                                                         *)
(* Python values are modelled with their run-time type: a str is the      *)
(* sequence of its characters (iteration, 'in' and strip() act on the     *)
(* characters), a value whose type the code inspects is a record tagged   *)
(* with its type, a dict is the ordered sequence of its (key, value)      *)
(* pairs, a set is a set.                                                 *)
(***************************************************************************)
EXTENDS Naturals, Sequences, FiniteSets, TLC

VARIABLES
    main,             \* the parsed main playbook file: a sequence of tasks
    roles_meta,       \* role -> roles/<role>/meta/main.yml, or NoDir / NoFile
    roles_specs,      \* role -> roles/<role>/meta/argument_specs.yml, or NoFile
    roles_defaults,   \* role -> roles/<role>/defaults/main.yml, or NoFile
    hosts,            \* the list[ConfigHost] handed to generate()
    pc,               \* where the running operation stands
    args,             \* the arguments of the operation under way
    ret,              \* what the operation returned
    stack,            \* the frames of get_dependant_roles under way
    roles_per_host,   \* generate(): the dict host name -> set of roles
    host_i,           \* generate(): the position of the running loop
    files             \* the example files written so far: path -> lines

vars == <<main, roles_meta, roles_specs, roles_defaults, hosts, pc, args, ret,
          stack, roles_per_host, host_i, files>>

(***************************************************************************)
(* Python values                                                           *)
(***************************************************************************)
PyStr(s) == [t |-> "str", v |-> s]
PyInt(n) == [t |-> "int", v |-> n]
PyBool(b) == [t |-> "bool", v |-> b]
PyList(s) == [t |-> "list", v |-> s]
PyDict(s) == [t |-> "dict", v |-> s]
PyNone == [t |-> "NoneType"]

Return(v) == [exc |-> "", value |-> v]
Raise(e) == [exc |-> e]

Range(s) == {s[i] : i \in 1..Len(s)}

\* key in d
Has(d, key) == \E i \in 1..Len(d.v) : d.v[i][1] = key

\* d[key], for a key of d
Item(d, key) == d.v[CHOOSE i \in 1..Len(d.v) : d.v[i][1] = key][2]

\* d.get(key, dflt)
Get(d, key, dflt) == IF Has(d, key) THEN Item(d, key) ELSE dflt

\* d.keys()
Keys(d) == {d.v[i][1] : i \in 1..Len(d.v)}

\* bool(x)
Truthy(x) ==
    CASE x.t = "NoneType" -> FALSE
      [] x.t = "bool" -> x.v
      [] x.t = "int" -> x.v # 0
      [] OTHER -> Len(x.v) > 0

\* needle in hay, for two str
Contains(hay, needle) ==
    \E i \in 0..Len(hay) :
        /\ i + Len(needle) <= Len(hay)
        /\ SubSeq(hay, i + 1, i + Len(needle)) = needle

\* x in container, for a str x: a substring of a str, an item of a list
In(x, container) ==
    CASE container.t = "str" -> Contains(container.v, x)
      [] container.t = "list" -> \E i \in 1..Len(container.v) : container.v[i] = PyStr(x)
      [] OTHER -> FALSE

(***************************************************************************)
(* The strings of the model                                                *)
(***************************************************************************)
SHARED_HOST_NAME == <<"a", "l", "l">>
SHARED_TAG == <<"s", "h", "a", "r", "e", "d">>
CUSTOM_PROPERTY_SECRET == <<"x", "-", "s", "e", "c", "r", "e", "t">>

k_role == <<"r", "o", "l", "e">>
k_roles == <<"r", "o", "l", "e", "s">>
k_hosts == <<"h", "o", "s", "t", "s">>
k_tags == <<"t", "a", "g", "s">>

nginx == <<"n", "g", "i", "n", "x">>
ssh == <<"s", "s", "h">>
pg == <<"p", "g">>
RoleNames == <<nginx, ssh, pg>>
Roles == Range(RoleNames)

\* The sequences over S of at most n items
SeqUpTo(S, n) == UNION {[1..k -> S] : k \in 0..n}

(***************************************************************************)
(* extract_role_names                                                      *)
(***************************************************************************)
\* the loop without its branch for mappings
ListItemNames_IgnoreMappings(items) ==
    {items[i].v : i \in {j \in 1..Len(items) : items[j].t = "str"}}

\* the 'for item in roles_data' loop
ListItemNames(items) ==
    {items[i].v : i \in {j \in 1..Len(items) : items[j].t = "str"}}
    \cup {Item(items[i], k_role).v :
            i \in {j \in 1..Len(items) : items[j].t = "dict" /\ Has(items[j], k_role)}}

extract_role_names(roles_data) ==
    CASE roles_data.t = "list" -> Return(ListItemNames(roles_data.v))
      [] roles_data.t = "dict" -> Return(Keys(roles_data))
      \* set.update(str) adds the characters of the str, each a str of length 1
      [] roles_data.t = "str" -> Return({<<roles_data.v[i]>> : i \in 1..Len(roles_data.v)})
      [] OTHER -> Raise("ValueError")

\* Bounds of the roles values tried
MaxItems == 2

some_tags == PyList(<<PyStr(SHARED_TAG)>>)

\* The items of a roles list: bare names, mappings with a 'role' key (with and
\* without other keys), a mapping without one, a number
RoleItems ==
    {PyStr(r) : r \in Roles}
    \cup {PyDict(<<<<k_role, PyStr(r)>>>>) : r \in Roles}
    \cup {PyDict(<<<<k_role, PyStr(r)>>, <<k_tags, some_tags>>>>) : r \in Roles}
    \cup {PyDict(<<<<k_tags, some_tags>>>>), PyInt(5)}

\* The dicts {name: {}, ...} over a set of names, the keys in each order
KeyedBy(S) ==
    {PyDict([i \in 1..Len(keys) |-> <<keys[i], PyDict(<<>>)>>]) :
        keys \in {s \in [1..Cardinality(S) -> S] : Range(s) = S}}

RolesDataInputs ==
    {PyList(items) : items \in SeqUpTo(RoleItems, MaxItems)}
    \cup UNION {KeyedBy(S) : S \in SUBSET Roles}
    \cup {PyStr(r) : r \in Roles}
    \cup {PyInt(5), PyNone}

Idle ==
    /\ main = <<>>
    /\ roles_meta = <<>>
    /\ roles_specs = <<>>
    /\ roles_defaults = <<>>
    /\ hosts = <<>>
    /\ stack = <<>>
    /\ roles_per_host = <<>>
    /\ host_i = 0
    /\ files = <<>>

InitExtract ==
    /\ Idle
    /\ pc = "call"
    /\ args \in {[roles_data |-> d] : d \in RolesDataInputs}
    /\ ret = Return({})

CallExtractRoleNames ==
    /\ pc = "call"
    /\ LET r == extract_role_names(args.roles_data)
       IN /\ ret' = r
          /\ pc' = IF r.exc = "" THEN "return" ELSE "raise"
    /\ UNCHANGED <<main, roles_meta, roles_specs, roles_defaults, hosts, args,
                   stack, roles_per_host, host_i, files>>

NextExtract == CallExtractRoleNames

SpecExtract == InitExtract /\ [][NextExtract]_vars

(***************************************************************************)
(* parse_role                                                              *)
(***************************************************************************)
NoFile == [t |-> "NoFile"]
NoDir == [t |-> "NoDir"]

k_argument_specs == <<"a", "r", "g", "u", "m", "e", "n", "t", "_", "s", "p", "e", "c", "s">>
k_main == <<"m", "a", "i", "n">>
k_description == <<"d", "e", "s", "c", "r", "i", "p", "t", "i", "o", "n">>
k_short_description == <<"s", "h", "o", "r", "t", "_", "d", "e", "s", "c", "r", "i", "p", "t", "i", "o", "n">>
k_options == <<"o", "p", "t", "i", "o", "n", "s">>
k_type == <<"t", "y", "p", "e">>
k_required == <<"r", "e", "q", "u", "i", "r", "e", "d">>
k_default == <<"d", "e", "f", "a", "u", "l", "t">>

\* str.strip(): the whitespace at both ends removed
RECURSIVE LStrip(_)
LStrip(s) == IF s # <<>> /\ Head(s) = " " THEN LStrip(Tail(s)) ELSE s

RECURSIVE RStrip(_)
RStrip(s) == IF s # <<>> /\ s[Len(s)] = " " THEN RStrip(SubSeq(s, 1, Len(s) - 1)) ELSE s

Strip(s) == RStrip(LStrip(s))

ConfigProperty(name, type, description, required, default, secret) ==
    [name |-> name, type |-> type, description |-> description,
     required |-> required, default |-> default, secret |-> secret]

ConfigRole(name, description, short_description, properties) ==
    [name |-> name, description |-> description,
     short_description |-> short_description, properties |-> properties]

\* the precedence turned round: the spec's default before the defaults file's
ResolveDefault_SpecFirst(defaults, var_name, meta) ==
    IF Has(meta, k_default) THEN Item(meta, k_default) ELSE Get(defaults, var_name, PyNone)

\* default = defaults.get(var_name, meta.get("default"))
ResolveDefault(defaults, var_name, meta) ==
    Get(defaults, var_name, Get(meta, k_default, PyNone))

\* the body of the 'for var_name, meta in options.items()' loop
ParseOption(defaults, var_name, meta) ==
    ConfigProperty(var_name,
                   Get(meta, k_type, PyNone),
                   PyStr(Strip(Get(meta, k_description, PyStr(<<>>)).v)),
                   Get(meta, k_required, PyBool(FALSE)),
                   ResolveDefault(defaults, var_name, meta),
                   Get(meta, CUSTOM_PROPERTY_SECRET, PyBool(FALSE)))

\* specs_path, and whether it exists
SpecsFile(role) == IF role \in DOMAIN roles_specs THEN roles_specs[role] ELSE NoFile

\* defaults_path, and whether it exists
DefaultsFile(role) == IF role \in DOMAIN roles_defaults THEN roles_defaults[role] ELSE NoFile

parse_role(role) ==
    LET specs == SpecsFile(role)
        defaults_file == DefaultsFile(role)
        defaults == IF defaults_file.t # "NoFile" /\ Truthy(defaults_file)
                    THEN defaults_file ELSE PyDict(<<>>)
        \* specs and specs.get("argument_specs", {}).get("main", {})
        arg_specs == IF Truthy(specs)
                     THEN Get(Get(specs, k_argument_specs, PyDict(<<>>)), k_main, PyDict(<<>>))
                     ELSE specs
        top_description == IF Truthy(arg_specs)
                           THEN Get(arg_specs, k_description, PyDict(<<>>))
                           ELSE PyStr(<<>>)
        short_description == IF Truthy(arg_specs)
                             THEN Get(arg_specs, k_short_description, PyDict(<<>>))
                             ELSE PyStr(<<>>)
        \* arg_specs and arg_specs.get("options", {})
        options == IF Truthy(arg_specs)
                   THEN Get(arg_specs, k_options, PyDict(<<>>))
                   ELSE arg_specs
        properties == IF Truthy(options)
                      THEN [i \in 1..Len(options.v) |->
                               ParseOption(defaults, options.v[i][1], options.v[i][2])]
                      ELSE <<>>
        \* the loop assigns each option's description to the variable that
        \* holds the role's: the last option's is what is left in it
        description == IF Truthy(options)
                       THEN properties[Len(properties)].description
                       ELSE top_description
    IN IF specs.t = "NoFile"
       THEN ConfigRole(role, PyStr(<<>>), PyStr(<<>>), <<>>)
       ELSE ConfigRole(role, description, short_description, properties)

\* Bounds of the role documents tried
MaxOptions == 2

var_x == <<"x">>
var_y == <<"y">>
var_z == <<"z">>
OptionNames == {var_x, var_y, var_z}

text_role == <<"R", "o", "l", "e">>
text_short == <<"S", "h">>
text_option == <<" ", "o", "p", "t", " ">>
type_str == <<"s", "t", "r">>

\* What an option declares
OptionMetas ==
    {PyDict(<<>>),
     PyDict(<<<<k_description, PyStr(text_option)>>>>),
     PyDict(<<<<k_default, PyInt(5)>>>>),
     PyDict(<<<<k_description, PyStr(text_option)>>, <<k_default, PyInt(5)>>,
              <<CUSTOM_PROPERTY_SECRET, PyBool(FALSE)>>>>),
     PyDict(<<<<k_type, PyStr(type_str)>>, <<k_required, PyBool(TRUE)>>,
              <<CUSTOM_PROPERTY_SECRET, PyBool(TRUE)>>>>)}

\* The dicts with at most n distinct keys of K, in each order, the values in V
DictsOver(K, V, n) ==
    {PyDict(s) : s \in {q \in SeqUpTo(K \X V, n) :
                          \A i, j \in 1..Len(q) : q[i][1] = q[j][1] => i = j}}

\* a field that is missing, empty or set
FieldChoices(key, text) == {<<>>, <<<<key, PyStr(<<>>)>>>>, <<<<key, PyStr(text)>>>>}

MainObjects ==
    {PyDict(d \o s \o o) :
        d \in FieldChoices(k_description, text_role),
        s \in FieldChoices(k_short_description, text_short),
        o \in {<<>>} \cup {<<<<k_options, opts>>>> :
                             opts \in DictsOver(OptionNames, OptionMetas, MaxOptions)}}

SpecsDocs ==
    {NoFile, PyNone, PyDict(<<>>)}
    \cup {PyDict(<<<<k_argument_specs, PyDict(<<<<k_main, m>>>>)>>>>) : m \in MainObjects}

DefaultsDocs ==
    {NoFile, PyNone,
     PyDict(<<<<var_x, PyInt(10)>>>>),
     PyDict(<<<<var_x, PyNone>>, <<var_y, PyInt(10)>>>>)}

InitParse ==
    /\ main = <<>>
    /\ roles_meta = <<>>
    /\ hosts = <<>>
    /\ stack = <<>>
    /\ roles_per_host = <<>>
    /\ host_i = 0
    /\ files = <<>>
    /\ pc = "call"
    /\ args = [role |-> nginx]
    /\ roles_specs \in {[r \in Roles |-> IF r = nginx THEN d ELSE NoFile] : d \in SpecsDocs}
    /\ roles_defaults \in {[r \in Roles |-> IF r = nginx THEN d ELSE NoFile] : d \in DefaultsDocs}
    /\ ret = Return({})

CallParseRole ==
    /\ pc = "call"
    /\ ret' = Return(parse_role(args.role))
    /\ pc' = "return"
    /\ UNCHANGED <<main, roles_meta, roles_specs, roles_defaults, hosts, args,
                   stack, roles_per_host, host_i, files>>

NextParse == CallParseRole

SpecParse == InitParse /\ [][NextParse]_vars

(***************************************************************************)
(* build_role_config and generate_example_config                           *)
(***************************************************************************)
SECRET_FILE_SUFFIX == <<".", "s", "e", "c", "r", "e", "t", "s">>

\* The characters of a string literal of the code (the backquotes of the
\* shared host's header are written as quotes)
Chars(s) ==
    CASE s = "\n### Role: " ->
            <<"\n", "#", "#", "#", " ", "R", "o", "l", "e", ":", " ">>
      [] s = " - " ->
            <<" ", "-", " ">>
      [] s = "###     " ->
            <<"#", "#", "#", " ", " ", " ", " ", " ">>
      [] s = "#  (REQUIRED) " ->
            <<"#", " ", " ", "(", "R", "E", "Q", "U", "I", "R", "E", "D", ")", " ">>
      [] s = "#  (Optional) " ->
            <<"#", " ", " ", "(", "O", "p", "t", "i", "o", "n", "a", "l", ")", " ">>
      [] s = "#  Type: " ->
            <<"#", " ", " ", "T", "y", "p", "e", ":", " ">>
      [] s = "#  Default: " ->
            <<"#", " ", " ", "D", "e", "f", "a", "u", "l", "t", ":", " ">>
      [] s = ": " ->
            <<":", " ">>
      [] s = "(no options)" ->
            <<"(", "n", "o", " ", "o", "p", "t", "i", "o", "n", "s", ")">>
      [] s = "# Note: This role has secret variables. See the corresponding '" ->
            <<"#", " ", "N", "o", "t", "e", ":", " ", "T", "h", "i", "s", " ", "r", "o", "l", "e", " ", "h", "a", "s", " ", "s", "e", "c", "r", "e", "t", " ", "v", "a", "r", "i", "a", "b", "l", "e", "s", ".", " ", "S", "e", "e", " ", "t", "h", "e", " ", "c", "o", "r", "r", "e", "s", "p", "o", "n", "d", "i", "n", "g", " ", "'">>
      [] s = "' file for the list of those variables." ->
            <<"'", " ", "f", "i", "l", "e", " ", "f", "o", "r", " ", "t", "h", "e", " ", "l", "i", "s", "t", " ", "o", "f", " ", "t", "h", "o", "s", "e", " ", "v", "a", "r", "i", "a", "b", "l", "e", "s", ".">>
      [] s = "---" ->
            <<"-", "-", "-">>
      [] s = "# Autogenerated example config from roles argument_specs" ->
            <<"#", " ", "A", "u", "t", "o", "g", "e", "n", "e", "r", "a", "t", "e", "d", " ", "e", "x", "a", "m", "p", "l", "e", " ", "c", "o", "n", "f", "i", "g", " ", "f", "r", "o", "m", " ", "r", "o", "l", "e", "s", " ", "a", "r", "g", "u", "m", "e", "n", "t", "_", "s", "p", "e", "c", "s">>
      [] s = "# SECRETS: This file contains only secret variables and is meant as a list of variables you should put in a vault or some secret manager, instead of here." ->
            <<"#", " ", "S", "E", "C", "R", "E", "T", "S", ":", " ", "T", "h", "i", "s", " ", "f", "i", "l", "e", " ", "c", "o", "n", "t", "a", "i", "n", "s", " ", "o", "n", "l", "y", " ", "s", "e", "c", "r", "e", "t", " ", "v", "a", "r", "i", "a", "b", "l", "e", "s", " ", "a", "n", "d", " ", "i", "s", " ", "m", "e", "a", "n", "t", " ", "a", "s", " ", "a", " ", "l", "i", "s", "t", " ", "o", "f", " ", "v", "a", "r", "i", "a", "b", "l", "e", "s", " ", "y", "o", "u", " ", "s", "h", "o", "u", "l", "d", " ", "p", "u", "t", " ", "i", "n", " ", "a", " ", "v", "a", "u", "l", "t", " ", "o", "r", " ", "s", "o", "m", "e", " ", "s", "e", "c", "r", "e", "t", " ", "m", "a", "n", "a", "g", "e", "r", ",", " ", "i", "n", "s", "t", "e", "a", "d", " ", "o", "f", " ", "h", "e", "r", "e", ".">>
      [] s = "# These are the shared configs applied for all hosts. Any value here can be overriden in the specific host config.\n# Use the 'shared' tag (in main playbook) to make configs appear here." ->
            <<"#", " ", "T", "h", "e", "s", "e", " ", "a", "r", "e", " ", "t", "h", "e", " ", "s", "h", "a", "r", "e", "d", " ", "c", "o", "n", "f", "i", "g", "s", " ", "a", "p", "p", "l", "i", "e", "d", " ", "f", "o", "r", " ", "a", "l", "l", " ", "h", "o", "s", "t", "s", ".", " ", "A", "n", "y", " ", "v", "a", "l", "u", "e", " ", "h", "e", "r", "e", " ", "c", "a", "n", " ", "b", "e", " ", "o", "v", "e", "r", "r", "i", "d", "e", "n", " ", "i", "n", " ", "t", "h", "e", " ", "s", "p", "e", "c", "i", "f", "i", "c", " ", "h", "o", "s", "t", " ", "c", "o", "n", "f", "i", "g", ".", "\n", "#", " ", "U", "s", "e", " ", "t", "h", "e", " ", "'", "s", "h", "a", "r", "e", "d", "'", " ", "t", "a", "g", " ", "(", "i", "n", " ", "m", "a", "i", "n", " ", "p", "l", "a", "y", "b", "o", "o", "k", ")", " ", "t", "o", " ", "m", "a", "k", "e", " ", "c", "o", "n", "f", "i", "g", "s", " ", "a", "p", "p", "e", "a", "r", " ", "h", "e", "r", "e", ".">>
      [] s = "host_vars/" ->
            <<"h", "o", "s", "t", "_", "v", "a", "r", "s", "/">>
      [] s = "/." ->
            <<"/", ".">>
      [] s = ".yml.example" ->
            <<".", "y", "m", "l", ".", "e", "x", "a", "m", "p", "l", "e">>
      [] s = "True" ->
            <<"T", "r", "u", "e">>
      [] s = "False" ->
            <<"F", "a", "l", "s", "e">>
      [] s = "None" ->
            <<"N", "o", "n", "e">>
      [] s = "{}" ->
            <<"{", "}">>
      [] s = "[]" ->
            <<"[", "]">>

DigitChars == <<"0", "1", "2", "3", "4", "5", "6", "7", "8", "9">>

RECURSIVE Digits(_)
Digits(n) ==
    IF n < 10 THEN <<DigitChars[n + 1]>>
    ELSE Digits(n \div 10) \o <<DigitChars[(n % 10) + 1]>>

\* str(x), as an f-string formats x (of the containers, only the empty ones
\* reach a format here)
Format(x) ==
    CASE x.t = "str" -> x.v
      [] x.t = "int" -> Digits(x.v)
      [] x.t = "bool" -> IF x.v THEN Chars("True") ELSE Chars("False")
      [] x.t = "NoneType" -> Chars("None")
      [] x.t = "dict" -> Chars("{}")
      [] x.t = "list" -> Chars("[]")

\* a != b for a value a and a bool b (True == 1 and False == 0 in Python)
NotEqualBool(a, b) ==
    CASE a.t = "bool" -> a.v # b
      [] a.t = "int" -> a.v # (IF b THEN 1 ELSE 0)
      [] OTHER -> TRUE

\* any(p.secret for p in properties)
HasSecrets(properties) == \E i \in 1..Len(properties) : Truthy(properties[i].secret)

\* the filter left out
Skipped_Never(prop, secrets) == FALSE

\* if prop.secret != secrets: continue
Skipped(prop, secrets) == NotEqualBool(prop.secret, secrets)

\* the lines a property adds to the block
PropertyLines(prop) ==
    <<(IF Truthy(prop.required) THEN Chars("#  (REQUIRED) ") ELSE Chars("#  (Optional) "))
        \o Format(prop.description)>>
    \o (IF prop.type.t # "NoneType" THEN <<Chars("#  Type: ") \o Format(prop.type)>> ELSE <<>>)
    \o (IF prop.default.t # "NoneType"
        THEN <<Chars("#  Default: ") \o Format(prop.default)>> ELSE <<>>)
    \o <<prop.name \o Chars(": ")
          \o (IF prop.default.t # "NoneType" THEN Format(prop.default) ELSE <<>>)>>
    \o <<<<>>>>

RECURSIVE PropertiesLines(_, _)
PropertiesLines(properties, secrets) ==
    IF properties = <<>> THEN <<>>
    ELSE (IF Skipped(Head(properties), secrets) THEN <<>> ELSE PropertyLines(Head(properties)))
         \o PropertiesLines(Tail(properties), secrets)

\* if config_role.properties: the loop, else: the marker
OptionsLines(properties, secrets) ==
    IF properties # <<>> THEN PropertiesLines(properties, secrets)
    ELSE <<Chars("(no options)")>>

build_role_config(config_role, secrets) ==
    <<Chars("\n### Role: ") \o config_role.name
        \o (IF Truthy(config_role.short_description)
            THEN Chars(" - ") \o Format(config_role.short_description) ELSE <<>>)>>
    \o (IF Truthy(config_role.description)
        THEN <<Chars("###     ") \o Format(config_role.description)>> ELSE <<>>)
    \o <<[i \in 1..64 |-> "#"], <<>>>>
    \o OptionsLines(config_role.properties, secrets)
    \o (IF ~secrets /\ HasSecrets(config_role.properties)
        THEN <<Chars("# Note: This role has secret variables. See the corresponding '")
               \o SECRET_FILE_SUFFIX \o Chars("' file for the list of those variables.")>> ELSE <<>>)
    \o <<<<>>>>

\* output_dir / f".{stem}.yml.example"
OutputFile(host_name, secrets) ==
    Chars("host_vars/") \o host_name \o Chars("/.") \o host_name
    \o (IF secrets THEN SECRET_FILE_SUFFIX ELSE <<>>) \o Chars(".yml.example")

\* the skip of roles without secrets left out
InSecretsFile_Always(config_role) == TRUE

\* not (secrets and not any(p.secret for p in config_role.properties))
InSecretsFile(config_role) == HasSecrets(config_role.properties)

\* the 'for role in roles' loop, the roles taken in the order 'order'
RECURSIVE RolesLines(_, _)
RolesLines(order, secrets) ==
    IF order = <<>> THEN <<>>
    ELSE LET config_role == parse_role(Head(order))
         IN (IF secrets /\ ~InSecretsFile(config_role) THEN <<>>
             ELSE build_role_config(config_role, secrets))
            \o RolesLines(Tail(order), secrets)

\* the lines written to the file (joined with line breaks by the write)
ExampleConfigLines(host_name, order, secrets) ==
    <<Chars("---"), Chars("# Autogenerated example config from roles argument_specs")>>
    \o (IF secrets THEN <<Chars("# SECRETS: This file contains only secret variables and is meant as a list of variables you should put in a vault or some secret manager, instead of here.")>> ELSE <<>>)
    \o (IF host_name = SHARED_HOST_NAME THEN <<Chars("# These are the shared configs applied for all hosts. Any value here can be overriden in the specific host config.\n# Use the 'shared' tag (in main playbook) to make configs appear here.")>> ELSE <<>>)
    \o RolesLines(order, secrets)

\* The orders a set may be iterated in
Orders(S) == {s \in [1..Cardinality(S) -> S] : Range(s) = S}

\* generate_example_config(host_name, roles, secrets): the file is written whole
generate_example_config(host_name, roles, secrets) ==
    \E order \in Orders(roles) :
        files' = (OutputFile(host_name, secrets) :> ExampleConfigLines(host_name, order, secrets))
                 @@ files

(***************************************************************************)
(* get_dependant_roles and accumulate_roles                                *)
(***************************************************************************)
k_dependencies == <<"d", "e", "p", "e", "n", "d", "e", "n", "c", "i", "e", "s">>

\* The depth at which Python gives up a recursion (1000 frames by default)
RecursionLimit == 6

\* role_dir and meta_file: NoDir, NoFile, or the parsed meta/main.yml
MetaFile(role) == IF role \in DOMAIN roles_meta THEN roles_meta[role] ELSE NoDir

\* the roles named by deps = meta.get("dependencies", []), in their order
DepRoles(role) ==
    LET file == MetaFile(role)
        meta == IF Truthy(file) THEN file ELSE PyDict(<<>>)
        deps == Get(meta, k_dependencies, PyList(<<>>))
    IN IF file.t \in {"NoDir", "NoFile"} THEN <<>>
       ELSE [i \in 1..Len(deps.v) |-> Item(deps.v[i], k_role).v]

RECURSIVE get_dependant_roles_at(_, _)
get_dependant_roles_at(role, depth) ==
    IF depth > RecursionLimit THEN Raise("RecursionError")
    ELSE LET deps == DepRoles(role)
             below == [i \in 1..Len(deps) |-> get_dependant_roles_at(deps[i], depth + 1)]
         IN IF \E i \in 1..Len(deps) : below[i].exc # ""
            THEN Raise("RecursionError")
            ELSE Return(Range(deps) \cup UNION {below[i].value : i \in 1..Len(deps)})

\* the dependencies of the role alone, those of its dependencies left out
get_dependant_roles_direct_only(role) == Return(Range(DepRoles(role)))

get_dependant_roles(role) == get_dependant_roles_at(role, 1)

\* the condition under which a task's roles are taken for the group
TaskApplies(task, group_name) ==
    \/ In(group_name, Item(task, k_hosts))
    \/ Item(task, k_hosts) = PyStr(SHARED_HOST_NAME)
    \/ (Has(task, k_tags) /\ In(SHARED_TAG, Item(task, k_tags)))

\* the 'for task in main' loop: main_roles, or the error of the first task
\* whose roles are rejected
RECURSIVE MainRoles(_, _)
MainRoles(tasks, group_name) ==
    IF tasks = <<>> THEN Return({})
    ELSE LET task == Head(tasks)
             found == IF TaskApplies(task, group_name) /\ Has(task, k_roles)
                      THEN extract_role_names(Item(task, k_roles))
                      ELSE Return({})
             rest == MainRoles(Tail(tasks), group_name)
         IN IF found.exc # "" THEN found
            ELSE IF rest.exc # "" THEN rest
            ELSE Return(found.value \cup rest.value)

accumulate_roles(group_name) ==
    LET main_roles == MainRoles(main, group_name)
        below == [role \in main_roles.value |-> get_dependant_roles(role)]
    IN IF main_roles.exc # "" THEN main_roles
       ELSE IF \E role \in main_roles.value : below[role].exc # ""
       THEN Raise("RecursionError")
       ELSE Return(main_roles.value \cup UNION {below[role].value : role \in main_roles.value})

(***************************************************************************)
(* get_dependant_roles, frame by frame                                     *)
(***************************************************************************)
\* a call's frame: its role, its set 'roles', its deps and the one it is at
Frame(role) == [role |-> role, roles |-> {}, deps |-> DepRoles(role), i |-> 1]

Top == stack[Len(stack)]

Push(frames, frame) == Append(frames, frame)

CallGetDependantRoles ==
    /\ pc = "call"
    /\ stack' = <<Frame(args.role)>>
    /\ pc' = "running"
    /\ UNCHANGED <<main, roles_meta, roles_specs, roles_defaults, hosts, args, ret,
                   roles_per_host, host_i, files>>

\* roles.add(dep_role), then the recursive call
Descend ==
    /\ pc = "running"
    /\ Top.i <= Len(Top.deps)
    /\ LET dep_role == Top.deps[Top.i]
           here == [Top EXCEPT !.roles = @ \cup {dep_role}]
       IN IF Len(stack) >= RecursionLimit
          THEN /\ pc' = "raise"
               /\ ret' = Raise("RecursionError")
               /\ stack' = <<>>
          ELSE /\ stack' = Push([stack EXCEPT ![Len(stack)] = here], Frame(dep_role))
               /\ UNCHANGED <<pc, ret>>
    /\ UNCHANGED <<main, roles_meta, roles_specs, roles_defaults, hosts, args,
                   roles_per_host, host_i, files>>

\* return roles, and the caller's roles.update(...)
ReturnRoles ==
    /\ pc = "running"
    /\ Top.i > Len(Top.deps)
    /\ IF Len(stack) = 1
       THEN /\ ret' = Return(Top.roles)
            /\ pc' = "return"
            /\ stack' = <<>>
       ELSE /\ stack' = [SubSeq(stack, 1, Len(stack) - 1) EXCEPT
                            ![Len(stack) - 1] = [@ EXCEPT !.roles = @ \cup Top.roles,
                                                          !.i = @ + 1]]
            /\ UNCHANGED <<pc, ret>>
    /\ UNCHANGED <<main, roles_meta, roles_specs, roles_defaults, hosts, args,
                   roles_per_host, host_i, files>>

\* Bounds of the dependency graphs tried
MaxDeps == 1

DepsFile(deps) ==
    PyDict(<<<<k_dependencies,
              PyList([i \in 1..Len(deps) |-> PyDict(<<<<k_role, PyStr(deps[i])>>>>)])>>>>)

\* What a role's directory may hold: nothing (no directory), no meta/main.yml,
\* an empty one, one without dependencies, one with a list of them
MetaChoices ==
    {NoDir, NoFile, PyNone, PyDict(<<>>)}
    \cup {DepsFile(deps) : deps \in SeqUpTo(Roles, MaxDeps)}

InitDeps ==
    /\ main = <<>>
    /\ roles_specs = <<>>
    /\ roles_defaults = <<>>
    /\ hosts = <<>>
    /\ roles_per_host = <<>>
    /\ host_i = 0
    /\ files = <<>>
    /\ stack = <<>>
    /\ pc = "call"
    /\ roles_meta \in [Roles -> MetaChoices]
    /\ args \in {[role |-> r] : r \in Roles}
    /\ ret = Return({})

NextDeps == CallGetDependantRoles \/ Descend \/ ReturnRoles

SpecDeps == InitDeps /\ [][NextDeps]_vars

(***************************************************************************)
(* get_hosts and generate                                                  *)
(***************************************************************************)
k_children == <<"c", "h", "i", "l", "d", "r", "e", "n">>

ConfigHost(name, group_name) == [name |-> name, group_name |-> group_name]

RECURSIVE Flatten(_)
Flatten(seqs) == IF seqs = <<>> THEN <<>> ELSE Head(seqs) \o Flatten(Tail(seqs))

\* the hosts of one group of the inventory
GroupHosts(group, group_data) ==
    IF Has(group_data, k_hosts)
    THEN LET names == Item(group_data, k_hosts).v
         IN [i \in 1..Len(names) |-> ConfigHost(names[i][1], group)]
    ELSE <<>>

\* the hosts under one top-level entry of the inventory
TopHosts(top_data) ==
    LET children == Item(top_data, k_children).v
    IN Flatten([i \in 1..Len(children) |-> GroupHosts(children[i][1], children[i][2])])

\* get_hosts(include_shared), for an inventory file that exists and is not empty
get_hosts(inventory, include_shared) ==
    (IF include_shared THEN <<ConfigHost(SHARED_HOST_NAME, SHARED_HOST_NAME)>> ELSE <<>>)
    \o Flatten([i \in 1..Len(inventory.v) |-> TopHosts(inventory.v[i][2])])

\* roles_per_host[name] = roles, on the dict kept as its ordered items
SetItem(items, key, value) ==
    IF \E i \in 1..Len(items) : items[i][1] = key
    THEN [i \in 1..Len(items) |-> IF items[i][1] = key THEN <<key, value>> ELSE items[i]]
    ELSE Append(items, <<key, value>>)

HasKey(items, key) == \E i \in 1..Len(items) : items[i][1] = key

Lookup(items, key) == items[CHOOSE i \in 1..Len(items) : items[i][1] = key][2]

\* the loop turned into one that writes each host's file as it goes
Accumulate_WritingAsItGoes ==
    /\ pc = "accumulate"
    /\ LET host == hosts[host_i]
           found == accumulate_roles(host.group_name)
       IN IF found.exc # ""
          THEN /\ pc' = "raise"
               /\ ret' = found
               /\ UNCHANGED <<roles_per_host, host_i, files>>
          ELSE /\ roles_per_host' = SetItem(roles_per_host, host.name, found.value)
               /\ host_i' = host_i + 1
               /\ pc' = IF host_i = Len(hosts) THEN "dedup" ELSE "accumulate"
               /\ generate_example_config(host.name, found.value, FALSE)
               /\ UNCHANGED ret
    /\ UNCHANGED <<main, roles_meta, roles_specs, roles_defaults, hosts, args, stack>>

\* one turn of the loop 'for host in hosts'
Accumulate ==
    /\ pc = "accumulate"
    /\ LET host == hosts[host_i]
           found == accumulate_roles(host.group_name)
       IN IF found.exc # ""
          THEN /\ pc' = "raise"
               /\ ret' = found
               /\ UNCHANGED <<roles_per_host, host_i>>
          ELSE /\ roles_per_host' = SetItem(roles_per_host, host.name, found.value)
               /\ host_i' = host_i + 1
               /\ pc' = IF host_i = Len(hosts) THEN "dedup" ELSE "accumulate"
               /\ UNCHANGED ret
    /\ UNCHANGED <<main, roles_meta, roles_specs, roles_defaults, hosts, args, stack, files>>

\* the removal left out
SharedRemoved_FromNone(items) == items

\* roles.difference_update(all_roles) for every host but the shared one
SharedRemoved(items) ==
    LET all_roles == Lookup(items, SHARED_HOST_NAME)
    IN [i \in 1..Len(items) |->
          IF items[i][1] # SHARED_HOST_NAME
          THEN <<items[i][1], items[i][2] \ all_roles>>
          ELSE items[i]]

\* if SHARED_HOST_NAME in roles_per_host: ...
Dedup ==
    /\ pc = "dedup"
    /\ roles_per_host' = IF HasKey(roles_per_host, SHARED_HOST_NAME)
                         THEN SharedRemoved(roles_per_host)
                         ELSE roles_per_host
    /\ host_i' = 1
    /\ IF roles_per_host = <<>>
       THEN pc' = "return" /\ ret' = Return(0)
       ELSE pc' = "write_secrets" /\ UNCHANGED ret
    /\ UNCHANGED <<main, roles_meta, roles_specs, roles_defaults, hosts, args, stack, files>>

\* generate_example_config(host_name=name, roles=roles, secrets=True)
WriteSecrets ==
    /\ pc = "write_secrets"
    /\ generate_example_config(roles_per_host[host_i][1], roles_per_host[host_i][2], TRUE)
    /\ pc' = "write_normal"
    /\ UNCHANGED <<main, roles_meta, roles_specs, roles_defaults, hosts, args, ret,
                   stack, roles_per_host, host_i>>

\* generate_example_config(host_name=name, roles=roles, secrets=False)
WriteNormal ==
    /\ pc = "write_normal"
    /\ generate_example_config(roles_per_host[host_i][1], roles_per_host[host_i][2], FALSE)
    /\ host_i' = host_i + 1
    /\ IF host_i = Len(roles_per_host)
       THEN pc' = "return" /\ ret' = Return(0)
       ELSE pc' = "write_secrets" /\ UNCHANGED ret
    /\ UNCHANGED <<main, roles_meta, roles_specs, roles_defaults, hosts, args,
                   stack, roles_per_host>>

(***************************************************************************)
(* The inputs tried                                                        *)
(***************************************************************************)
web == <<"w", "e", "b">>
db == <<"d", "b">>
web_and_db == <<"w", "e", "b", ":", "d", "b">>
web1 == <<"w", "e", "b", "1">>
db1 == <<"d", "b", "1">>

Task(hosts_pattern, rest) == PyDict(<<<<k_hosts, PyStr(hosts_pattern)>>>> \o rest)

\* The tasks of a playbook: roles as bare names, as mappings and keyed by
\* name, a task of the shared baseline, one without roles, one whose roles
\* are a bare string and one whose roles are a number
task_web == Task(web, <<<<k_roles, PyList(<<PyStr(nginx)>>)>>>>)
task_db == Task(db, <<<<k_roles, PyList(<<PyDict(<<<<k_role, PyStr(pg)>>>>),
                                         PyDict(<<<<k_role, PyStr(nginx)>>, <<k_tags, some_tags>>>>)>>)>>>>)
task_all == Task(SHARED_HOST_NAME, <<<<k_roles, PyDict(<<<<ssh, PyDict(<<>>)>>>>)>>>>)
task_shared == Task(db, <<<<k_tags, some_tags>>, <<k_roles, PyList(<<PyStr(nginx)>>)>>>>)
task_both == Task(web_and_db, <<<<k_roles, PyList(<<PyStr(ssh)>>)>>>>)
task_no_roles == Task(web, <<>>)
task_string == Task(web, <<<<k_roles, PyStr(pg)>>>>)
task_number == Task(db, <<<<k_roles, PyInt(5)>>>>)

TaskChoices == {task_web, task_db, task_all, task_shared, task_number}

\* Bounds of the playbooks tried
MaxTasks == 2

Playbooks == SeqUpTo(TaskChoices, MaxTasks)

AccumulatePlaybooks ==
    SeqUpTo(TaskChoices \cup {task_both, task_no_roles, task_string}, 1)
    \cup {<<task_web, task_db>>, <<task_web, task_all>>, <<task_shared, task_both>>}

\* an inventory with one top-level entry, from its groups and their hosts
Inventory(groups) ==
    PyDict(<<<<SHARED_HOST_NAME, PyDict(<<<<k_children, PyDict(groups)>>>>)>>>>)

Group(group, names) ==
    <<group, PyDict(<<<<k_hosts, PyDict([i \in 1..Len(names) |-> <<names[i], PyNone>>])>>>>)>>

\* The inventories: one host, a host in each of two groups, a group without
\* hosts, the same host in two groups, no host at all
Inventories ==
    {Inventory(<<Group(web, <<web1>>)>>),
     Inventory(<<Group(web, <<web1>>), Group(db, <<db1>>)>>),
     Inventory(<<<<web, PyDict(<<>>)>>, Group(db, <<db1>>)>>),
     Inventory(<<Group(web, <<web1>>), Group(db, <<web1>>)>>),
     Inventory(<<<<web, PyDict(<<>>)>>>>)}

Graph(of_nginx, of_ssh, of_pg) ==
    [r \in Roles |-> IF r = nginx THEN of_nginx ELSE IF r = ssh THEN of_ssh ELSE of_pg]

\* The role trees of a run of generate: no dependencies; a chain; a role
\* without directory; two roles depending on each other
GenerateGraphs ==
    {Graph(NoFile, NoFile, NoFile),
     Graph(DepsFile(<<ssh>>), DepsFile(<<pg>>), PyDict(<<>>)),
     Graph(DepsFile(<<ssh>>), NoDir, NoFile),
     Graph(DepsFile(<<pg>>), NoFile, DepsFile(<<nginx>>))}

Option(name, rest) == <<name, PyDict(rest)>>

SpecsDoc(fields) == PyDict(<<<<k_argument_specs, PyDict(<<<<k_main, PyDict(fields)>>>>)>>>>)

secret_option == <<<<k_type, PyStr(type_str)>>, <<k_required, PyBool(TRUE)>>,
                   <<CUSTOM_PROPERTY_SECRET, PyBool(TRUE)>>>>
plain_option == <<<<k_description, PyStr(text_option)>>, <<k_default, PyInt(5)>>>>

\* The role documents of a run of generate: nginx documents a secret and a
\* plain option, ssh a plain one, pg has no specification
GenerateSpecs ==
    Graph(SpecsDoc(<<<<k_description, PyStr(text_role)>>,
                     <<k_short_description, PyStr(text_short)>>,
                     <<k_options, PyDict(<<Option(var_x, secret_option),
                                           Option(var_y, plain_option)>>)>>>>),
          SpecsDoc(<<<<k_options, PyDict(<<Option(var_z, plain_option)>>)>>>>),
          NoFile)

GenerateDefaults == Graph(PyDict(<<<<var_y, PyInt(10)>>>>), NoFile, NoFile)

(***************************************************************************)
(* The specifications                                                      *)
(***************************************************************************)
\* generate(hosts), on the hosts get_hosts found
Init ==
    /\ main \in Playbooks
    /\ roles_meta \in GenerateGraphs
    /\ roles_specs = GenerateSpecs
    /\ roles_defaults = GenerateDefaults
    /\ hosts \in {get_hosts(inventory, include_shared) :
                    inventory \in Inventories, include_shared \in BOOLEAN}
    /\ pc = IF hosts = <<>> THEN "dedup" ELSE "accumulate"
    /\ args = [hosts |-> hosts]
    /\ ret = Return(0)
    /\ stack = <<>>
    /\ roles_per_host = <<>>
    /\ host_i = 1
    /\ files = <<>>

Next == Accumulate \/ Dedup \/ WriteSecrets \/ WriteNormal

Spec == Init /\ [][Next]_vars

\* accumulate_roles(group_name)
InitAccumulate ==
    /\ main \in AccumulatePlaybooks
    /\ roles_meta \in [Roles -> MetaChoices]
    /\ roles_specs = <<>>
    /\ roles_defaults = <<>>
    /\ hosts = <<>>
    /\ pc = "call"
    /\ args \in {[group_name |-> g] : g \in {web, db, SHARED_HOST_NAME}}
    /\ ret = Return({})
    /\ stack = <<>>
    /\ roles_per_host = <<>>
    /\ host_i = 0
    /\ files = <<>>

CallAccumulateRoles ==
    /\ pc = "call"
    /\ LET found == accumulate_roles(args.group_name)
       IN /\ ret' = found
          /\ pc' = IF found.exc = "" THEN "return" ELSE "raise"
    /\ UNCHANGED <<main, roles_meta, roles_specs, roles_defaults, hosts, args,
                   stack, roles_per_host, host_i, files>>

NextAccumulate == CallAccumulateRoles

SpecAccumulate == InitAccumulate /\ [][NextAccumulate]_vars

\* What an option of a rendered role declares
RenderMetas == {PyDict(secret_option), PyDict(plain_option), PyDict(<<>>)}

RenderDocs ==
    {NoFile, SpecsDoc(<<>>)}
    \cup {SpecsDoc(<<<<k_description, PyStr(text_role)>>,
                    <<k_short_description, PyStr(text_short)>>,
                    <<k_options, opts>>>>) :
            opts \in DictsOver(OptionNames, RenderMetas, MaxOptions)}

\* the two calls of generate_example_config for one host of generate(), its
\* roles planned
InitRender ==
    /\ main = <<>>
    /\ roles_meta = <<>>
    /\ roles_specs \in {Graph(d, e, NoFile) :
                          d \in RenderDocs,
                          e \in {NoFile, SpecsDoc(<<<<k_options,
                                    PyDict(<<Option(var_x, secret_option)>>)>>>>)}}
    /\ roles_defaults \in {Graph(NoFile, NoFile, NoFile),
                           Graph(PyDict(<<<<var_x, PyInt(10)>>>>), NoFile, NoFile)}
    /\ hosts \in {<<ConfigHost(web1, web)>>,
                  <<ConfigHost(SHARED_HOST_NAME, SHARED_HOST_NAME)>>}
    /\ pc = "write_secrets"
    /\ args = [hosts |-> hosts]
    /\ ret = Return(0)
    /\ stack = <<>>
    /\ roles_per_host \in {<<<<hosts[1].name, roles>>>> : roles \in SUBSET Roles}
    /\ host_i = 1
    /\ files = <<>>

NextRender == WriteSecrets \/ WriteNormal

SpecRender == InitRender /\ [][NextRender]_vars

(***************************************************************************)
(* The claims                                                              *)
(***************************************************************************)

\* The three recognised shapes of a 'roles' value
IsBareNames(d) == d.t = "list" /\ \A i \in 1..Len(d.v) : d.v[i].t = "str"

IsRoleMappings(d) ==
    d.t = "list" /\ \A i \in 1..Len(d.v) : d.v[i].t = "dict" /\ Has(d.v[i], k_role)

IsKeyedByName(d) == d.t = "dict"

\* d is one of the three representations of the set S of role names
Represents(d, S) ==
    \/ IsBareNames(d) /\ {d.v[i].v : i \in 1..Len(d.v)} = S
    \/ IsRoleMappings(d) /\ {Item(d.v[i], k_role).v : i \in 1..Len(d.v)} = S
    \/ IsKeyedByName(d) /\ Keys(d) = S

\* C3: every 'roles' value that is not of one of the three recognised shapes
\* is rejected with an error: extract_role_names returns only for a sequence
\* of bare names, a sequence of mappings with a 'role' key, or a mapping.
C3_UnrecognisedRejected ==
    pc = "return" =>
        \/ IsBareNames(args.roles_data)
        \/ IsRoleMappings(args.roles_data)
        \/ IsKeyedByName(args.roles_data)

\* C4: whichever of the three recognised representations holds a set of role
\* names, extract_role_names returns exactly that set.
C4_SameSet ==
    pc # "call" =>
        \A S \in SUBSET Roles : Represents(args.roles_data, S) => ret = Return(S)

\* a sequence of mappings, one of them with a 'tags' key beside 'role', that
\* names two roles has been normalised
C4_Witness ==
    /\ pc = "return"
    /\ IsRoleMappings(args.roles_data)
    /\ \E i \in 1..Len(args.roles_data.v) : Has(args.roles_data.v[i], k_tags)
    /\ ret.value = {nginx, ssh}

\* What the role's specification file declares at argument_specs.main
DeclaredMain(role) ==
    LET specs == roles_specs[role]
        outer == IF specs.t = "dict" THEN Get(specs, k_argument_specs, PyDict(<<>>))
                 ELSE PyDict(<<>>)
    IN Get(outer, k_main, PyDict(<<>>))

DeclaredOptions(role) == Get(DeclaredMain(role), k_options, PyDict(<<>>))

\* field is the declared top-level value, or empty when that is empty or missing
IsTopLevel(field, role, key) ==
    LET declared == Get(DeclaredMain(role), key, PyStr(<<>>))
    IN IF Truthy(declared) THEN field = declared ELSE ~Truthy(field)

\* C6: the description and the short description parse_role returns are the
\* top-level values of argument_specs.main, empty when those are empty or
\* missing, whatever options the role declares.
C6_TopLevelDescription ==
    (pc = "return" /\ roles_specs[args.role].t # "NoFile") =>
        /\ IsTopLevel(ret.value.description, args.role, k_description)
        /\ IsTopLevel(ret.value.short_description, args.role, k_short_description)

\* the defaults file has an entry for the variable
HasDefaultsEntry(role, var_name) ==
    roles_defaults[role].t = "dict" /\ Has(roles_defaults[role], var_name)

\* C7: each option's resolved default is the defaults file's value when the
\* file has an entry for the variable, otherwise the default its spec
\* declares, otherwise absent.
C7_DefaultPrecedence ==
    pc = "return" =>
        LET options == DeclaredOptions(args.role)
            properties == ret.value.properties
        IN /\ Len(properties) = Len(options.v)
           /\ \A i \in 1..Len(properties) :
                LET var_name == options.v[i][1]
                    meta == options.v[i][2]
                IN /\ properties[i].name = var_name
                   /\ properties[i].default =
                        IF HasDefaultsEntry(args.role, var_name)
                        THEN Item(roles_defaults[args.role], var_name)
                        ELSE IF Has(meta, k_default) THEN Item(meta, k_default)
                        ELSE PyNone

\* an option declaring 'default: 5' whose variable the defaults file sets to 10
\* has been resolved to 10
C7_Witness ==
    /\ pc = "return"
    /\ \E i \in 1..Len(ret.value.properties) :
        /\ Get(DeclaredOptions(args.role).v[i][2], k_default, PyNone) = PyInt(5)
        /\ HasDefaultsEntry(args.role, ret.value.properties[i].name)
        /\ ret.value.properties[i].default = PyInt(10)

\* the roles A and B depend on each other, and both directories exist
MutualCycle(A, B) ==
    /\ A # B
    /\ Range(DepRoles(A)) = {B}
    /\ Range(DepRoles(B)) = {A}

\* C1: get_dependant_roles terminates on a cyclic dependency graph: it never
\* dies of the recursion, and for two roles depending on each other a query
\* starting at either returns both.
C1_CycleTerminates ==
    /\ pc # "raise"
    /\ \A A, B \in Roles :
        (pc = "return" /\ MutualCycle(A, B) /\ args.role \in {A, B}) => ret.value = {A, B}

\* a frame-by-frame call returns what the recursion computes
DepsAgree == pc \in {"return", "raise"} => ret = get_dependant_roles(args.role)

\* line starts with prefix
StartsWith(line, prefix) ==
    Len(line) >= Len(prefix) /\ SubSeq(line, 1, Len(prefix)) = prefix

\* line opens a role's block
IsHeader(line) == StartsWith(line, Chars("\n### Role: "))

\* line opens the block of this role
IsHeaderOf(line, role) ==
    LET title == Chars("\n### Role: ") \o role
    IN \/ line = title
       \/ StartsWith(line, title \o Chars(" - "))

\* the file holds a block for the role
HasBlock(lines, role) == \E i \in 1..Len(lines) : IsHeaderOf(lines[i], role)

\* the lines of the role's block: from its header to the next header
Block(lines, role) ==
    LET first == CHOOSE i \in 1..Len(lines) : IsHeaderOf(lines[i], role)
        later == {k \in (first + 1)..Len(lines) : IsHeader(lines[k])}
        last == IF later = {} THEN Len(lines)
                ELSE (CHOOSE k \in later : \A m \in later : k <= m) - 1
    IN IF HasBlock(lines, role) THEN SubSeq(lines, first, last) ELSE <<>>

\* the 'name: value' line of a property
ValueLine(prop) ==
    prop.name \o Chars(": ")
    \o (IF prop.default = PyNone THEN <<>> ELSE Format(prop.default))

\* the two files of a host are written
Written(host_name) ==
    {OutputFile(host_name, TRUE), OutputFile(host_name, FALSE)} \subseteq DOMAIN files

SecretsFile(host_name) == files[OutputFile(host_name, TRUE)]
NormalFile(host_name) == files[OutputFile(host_name, FALSE)]

\* C5: of the two files of a host, each property of each planned role has
\* its 'name: value' line in the role's block of exactly one: the secrets
\* file when the property is secret, the normal file otherwise.
C5_SecretPartition ==
    \A h \in 1..Len(roles_per_host) :
        LET name == roles_per_host[h][1]
            roles == roles_per_host[h][2]
        IN Written(name) =>
            \A role \in roles :
                LET properties == parse_role(role).properties
                    secrets_block == Range(Block(SecretsFile(name), role))
                    normal_block == Range(Block(NormalFile(name), role))
                IN \A i \in 1..Len(properties) :
                    LET line == ValueLine(properties[i])
                    IN IF properties[i].secret = PyBool(TRUE)
                       THEN line \in secrets_block /\ line \notin normal_block
                       ELSE line \in normal_block /\ line \notin secrets_block

\* both files of a host are written, for a role with a secret and a plain
\* property
C5_Witness ==
    /\ pc = "return"
    /\ Written(roles_per_host[1][1])
    /\ nginx \in roles_per_host[1][2]
    /\ LET properties == parse_role(nginx).properties
       IN /\ Len(properties) = 2
          /\ properties[1].secret = PyBool(TRUE)
          /\ properties[2].secret = PyBool(FALSE)
          /\ ValueLine(properties[1]) \in Range(Block(SecretsFile(roles_per_host[1][1]), nginx))
          /\ ValueLine(properties[2]) \in Range(Block(NormalFile(roles_per_host[1][1]), nginx))

\* C9: the normal file holds a block for every planned role, with the
\* '(no options)' marker exactly when the role has no property at all; the
\* secrets file holds a block for a role exactly when the role has a secret
\* property.
C9_Blocks ==
    \A h \in 1..Len(roles_per_host) :
        LET name == roles_per_host[h][1]
            roles == roles_per_host[h][2]
        IN Written(name) =>
            \A role \in roles :
                LET properties == parse_role(role).properties
                IN /\ HasBlock(NormalFile(name), role)
                   /\ (Chars("(no options)") \in Range(Block(NormalFile(name), role)))
                        <=> (properties = <<>>)
                   /\ HasBlock(SecretsFile(name), role)
                        <=> (\E i \in 1..Len(properties) : properties[i].secret = PyBool(TRUE))

\* both files of a host are written, for a role without properties, a role
\* with a secret property and a role with none
C9_Witness ==
    /\ pc = "return"
    /\ Written(roles_per_host[1][1])
    /\ roles_per_host[1][2] = Roles
    /\ parse_role(pg).properties = <<>>
    /\ ~HasBlock(SecretsFile(roles_per_host[1][1]), pg)
    /\ HasBlock(SecretsFile(roles_per_host[1][1]), ssh)
    /\ Len(parse_role(nginx).properties) = 2
    /\ ~HasBlock(SecretsFile(roles_per_host[1][1]), nginx)

\* the dependencies a role declares
DeclaredDeps(role) == Range(DepRoles(role))

\* the roles of S and every role reachable from them through declared
\* dependencies
RECURSIVE Closure(_)
Closure(S) ==
    LET more == S \cup UNION {DeclaredDeps(r) : r \in S}
    IN IF more = S THEN S ELSE Closure(more)

\* no role is reachable from itself
Acyclic == \A r \in Roles : r \notin Closure(DeclaredDeps(r))

\* C10: on an acyclic dependency graph accumulate_roles returns the roles
\* attached to the tasks applying to the group with every role reachable from
\* them through declared dependencies; a role without directory is kept and
\* adds nothing.
C10_Closure ==
    LET direct == MainRoles(main, args.group_name)
    IN (pc # "call" /\ Acyclic /\ direct.exc = "") =>
        /\ ret = Return(Closure(direct.value))
        /\ \A r \in ret.value : MetaFile(r) = NoDir => DeclaredDeps(r) = {}

\* two roles attached to the group's task both depend on a role that has no
\* directory: the three are returned
C10_Witness ==
    /\ pc = "return"
    /\ main = <<task_db>>
    /\ args.group_name = db
    /\ MetaFile(ssh) = NoDir
    /\ DepRoles(nginx) = <<ssh>>
    /\ DepRoles(pg) = <<ssh>>
    /\ ret.value = {nginx, pg, ssh}

\* the hosts whose files generate() writes
Planned == {roles_per_host[i][1] : i \in 1..Len(roles_per_host)}

\* C2: once the shared roles are removed, no host but the shared one has a
\* role of the shared host's set.
C2_SharedDisjoint ==
    (pc \in {"write_secrets", "write_normal", "return"} /\ SHARED_HOST_NAME \in Planned) =>
        \A name \in Planned \ {SHARED_HOST_NAME} :
            Lookup(roles_per_host, name) \cap Lookup(roles_per_host, SHARED_HOST_NAME) = {}

\* generate() has returned; a host keeps roles of its own, and roles computed
\* for its group were in the shared host's set
C2_Witness ==
    /\ pc = "return"
    /\ SHARED_HOST_NAME \in Planned
    /\ \E k \in 1..Len(hosts) :
        /\ hosts[k].name # SHARED_HOST_NAME
        /\ Lookup(roles_per_host, hosts[k].name) # {}
        /\ accumulate_roles(hosts[k].group_name).value
             \cap Lookup(roles_per_host, SHARED_HOST_NAME) # {}

\* C8: a run that aborts on its input has written no file: a file is written
\* only once the roles of every host are computed and the shared ones
\* removed.
C8_NoFileBeforeAbort ==
    /\ pc = "raise" => DOMAIN files = {}
    /\ DOMAIN files # {} =>
        /\ pc \in {"write_secrets", "write_normal", "return"}
        /\ Planned = {hosts[k].name : k \in 1..Len(hosts)}

\* the roles of a first host were computed when a later host's task was
\* rejected
C8_Witness ==
    /\ pc = "raise"
    /\ ret.exc = "ValueError"
    /\ roles_per_host # <<>>

====
